---- MODULE Spec2Model ----
(***************************************************************************)
(* Model of backend/main.py (Briefly API): the query-result cache          *)
(* (EXTENDED_CACHE, fetch_news), the upstream fan-out (fetch_news_batch),  *)
(* the /news and /search handler (search_news) and the personalized feed   *)
(* (get_personalized_feed).  Requests are coroutines of one event loop:    *)
(* a request runs atomically from one await of an upstream response to     *)
(* the next, and several requests may be in flight at once.  The user      *)
(* store (class DB) and the signup, topics and favorites handlers, which   *)
(* never await, are modelled as one step each.                             *)
(***************************************************************************)
EXTENDS Integers, Sequences, FiniteSets, TLC

\* ------------------------------------------------------------------ bounds
MaxTicks == 2           \* clock steps in one behaviour
TickStep == 150         \* seconds added by one clock step
MaxRespLen == 2         \* items in one upstream response

\* ------------------------------------------------------- program constants
CACHE_TTL == 300
BATCH_LIMIT == 50
FEED_PAGE_SIZE == 5
FEED_TOPIC_CAP == 5

QUERY_VARIATIONS == <<"", " latest", " news", " today", " update">>

\* ------------------------------------------------------------ input domains
Procs == {1, 2}
Urls == {"u1", "u2", "u3"}
NoUrl == ""             \* article.get("url", "") of an item without a url
NoTopic == <<>>         \* the article dict has no "topic" key
\* Strings are sequences of characters, so that lower() and strip() act on them.
RawQueries == {<<"A", " ">>, <<"b">>}
TopicLists == {<<>>, << <<"A">>, <<"b">> >>}
PageSizes == {1, 2}
Pages == {1, 2}

Min(a, b) == IF a < b THEN a ELSE b

SeqsUpTo(S, n) == UNION {[1..k -> S] : k \in 0..n}

\* What the provider may answer to one request: a 200 with a list of items
\* (each with or without a url), a non-200 status, or no answer at all
\* (httpx raises: timeout, connection error, invalid JSON).
Responses(urls) ==
    [type : {"ok"}, items : SeqsUpTo(urls, MaxRespLen)]
        \cup {[type |-> "status", items |-> <<>>], [type |-> "exc", items |-> <<>>]}

\* --------------------------------------------------------------- str helpers
Lower(c) == IF c = "A" THEN "a" ELSE IF c = "B" THEN "b" ELSE c

LowerStr(s) == [i \in 1..Len(s) |-> Lower(s[i])]

RECURSIVE LStrip(_)
LStrip(s) == IF s # <<>> /\ Head(s) = " " THEN LStrip(Tail(s)) ELSE s

RECURSIVE RStrip(_)
RStrip(s) ==
    IF s # <<>> /\ s[Len(s)] = " " THEN RStrip(SubSeq(s, 1, Len(s) - 1)) ELSE s

Strip(s) == RStrip(LStrip(s))

\* base_cache_key = query.lower().strip()
CacheKey(query) == Strip(LowerStr(query))

\* (mutant of Slice: the end index taken as inclusive)
SliceInclusive(s, start, end) == SubSeq(s, start + 1, Min(end + 1, Len(s)))

\* Python's s[start:end] for 0 <= start <= end.
Slice(s, start, end) == SubSeq(s, start + 1, Min(end, Len(s)))

VARIABLES
    apiKey,     \* GNEWS_API_KEY is set
    clock,      \* time.time()
    cache,      \* EXTENDED_CACHE: key -> (articles, timestamp)
    procs,      \* the requests in flight, one per slot
    hist,       \* history of the running fan-out (see NoHist)
    firstCall,  \* history: per key, the fetch_news call that stored its entry
    feedHist,   \* history: per slot, the urls fetch_news returned to the feed
                \* request for each topic it has consulted so far
    db,         \* DB._data: the users by email and the favorites by user id
    disk,       \* the JSON document in USERS_FILE
    reply       \* the answer to the last request on users, topics or favorites

store == <<db, disk, reply>>

vars == <<apiKey, clock, cache, procs, hist, firstCall, feedHist, db, disk, reply>>

\* ------------------------------------------------------------------- state
\* A request slot with no request in it.
Idle ==
    [pc |-> "idle", kind |-> "none", query |-> <<>>, max_results |-> 0, page |-> 0,
     now |-> 0, vi |-> 0, all_articles |-> <<>>, seen_urls |-> {},
     topics |-> <<>>, ti |-> 0, feed_articles |-> <<>>, feed_seen |-> {},
     results |-> <<>>, has_more |-> FALSE, message |-> "", status |-> 0,
     calls |-> 0, fanout |-> 0]

\* History of one fan-out, kept beside the program's state: whether a variation
\* failed, whether a response held an item the fan-out had to drop (no url, or
\* a url seen before), the variation whose response first held each url, and
\* the url's first place in that response (0: none).
NoHist ==
    [failed |-> FALSE, dropped |-> FALSE,
     firstVar |-> [u \in Urls |-> 0], firstPos |-> [u \in Urls |-> 0]]

\* One normalized article dict built by fetch_news_batch (url is its identity;
\* "topic" is absent until get_personalized_feed sets it).
Article(url) == [url |-> url, topic |-> NoTopic]

EmptyCache == [k \in {} |-> k]

\* DB._data = {"users": {}, "favorites": {}}
EmptyData == [users |-> EmptyCache, favorites |-> EmptyCache]

\* The file as a document that json.load can read back (valid), or what an
\* interrupted json.dump left of it.
Document(data) == [valid |-> TRUE, data |-> data]

Truncated == [valid |-> FALSE, data |-> EmptyData]

NoReply == [op |-> "none", status |-> 0, detail |-> "", res |-> FALSE, topics |-> <<>>,
            uid |-> 0, favorites_count |-> 0]

Init ==
    /\ apiKey \in BOOLEAN
    /\ clock = 0
    /\ cache = EmptyCache
    /\ procs = [p \in Procs |-> Idle]
    /\ hist = NoHist
    /\ firstCall = EmptyCache
    /\ feedHist = [p \in Procs |-> <<>>]
    /\ db = EmptyData
    /\ disk = Document(EmptyData)
    /\ reply = NoReply

\* -------------------------------------------------------- fetch_news_batch
\* (mutant of AddArticles: seen_urls is not consulted)
RECURSIVE AddArticlesUnseen(_, _, _)
AddArticlesUnseen(items, all_articles, seen_urls) ==
    IF items = <<>>
    THEN [all_articles |-> all_articles, seen_urls |-> seen_urls]
    ELSE LET url == Head(items) IN
         IF url # NoUrl
         THEN AddArticlesUnseen(Tail(items), Append(all_articles, Article(url)),
                                seen_urls \cup {url})
         ELSE AddArticlesUnseen(Tail(items), all_articles, seen_urls)

\* (mutant of AddArticles: a new article is put at the front of the list)
RECURSIVE AddArticlesFront(_, _, _)
AddArticlesFront(items, all_articles, seen_urls) ==
    IF items = <<>>
    THEN [all_articles |-> all_articles, seen_urls |-> seen_urls]
    ELSE LET url == Head(items) IN
         IF url # NoUrl /\ url \notin seen_urls
         THEN AddArticlesFront(Tail(items), <<Article(url)>> \o all_articles,
                               seen_urls \cup {url})
         ELSE AddArticlesFront(Tail(items), all_articles, seen_urls)

\* for article in articles: if url and url not in seen_urls: add, append
RECURSIVE AddArticles(_, _, _)
AddArticles(items, all_articles, seen_urls) ==
    IF items = <<>>
    THEN [all_articles |-> all_articles, seen_urls |-> seen_urls]
    ELSE LET url == Head(items) IN
         IF url # NoUrl /\ url \notin seen_urls
         THEN AddArticles(Tail(items), Append(all_articles, Article(url)),
                          seen_urls \cup {url})
         ELSE AddArticles(Tail(items), all_articles, seen_urls)

\* The for loop goes to its next variation and issues that request, or ends.
NextVariation(s) ==
    IF s.vi < Len(QUERY_VARIATIONS)
    THEN [s |-> [s EXCEPT !.vi = @ + 1, !.calls = @ + 1], returned |-> FALSE]
    ELSE [s |-> s, returned |-> TRUE]

\* if response.status_code != 200: log; continue
OnStatusError(s) == NextVariation(s)

\* client.get (or response.json) raises: the except around the whole loop
\* catches it, and the function returns what it has.
OnException(s) == [s |-> s, returned |-> TRUE]

\* A 200: take the new urls, then "if len(all_articles) >= 50: break".
OnArticles(s, items) ==
    LET acc == AddArticles(items, s.all_articles, s.seen_urls)
        s1 == [s EXCEPT !.all_articles = acc.all_articles,
                        !.seen_urls = acc.seen_urls]
    IN IF Len(s1.all_articles) >= BATCH_LIMIT
       THEN [s |-> s1, returned |-> TRUE]
       ELSE NextVariation(s1)

BatchOnResponse(s, r) ==
    CASE r.type = "exc" -> OnException(s)
      [] r.type = "status" -> OnStatusError(s)
      [] OTHER -> OnArticles(s, r.items)

\* ---------------------------------------------------------------- fetch_news
\* (mutant of KeyConfigured: the key is not checked)
KeyCheckSkipped == TRUE

\* if not GNEWS_API_KEY: log an error; return []
KeyConfigured == apiKey

\* if now - timestamp < CACHE_TTL
IsFresh(now, timestamp) == now - timestamp < CACHE_TTL

\* The cache-hit branch is taken and returns.
CacheHit(c, key, now, start) ==
    /\ key \in DOMAIN c
    /\ IsFresh(now, c[key].timestamp)
    /\ start < Len(c[key].articles)

\* (mutant of WantsFetch: whatever is not served from the cache is fetched)
WantsFetchAlways(c, key, page) == TRUE

\* (mutant of WantsFetch: only a page-1 request is fetched)
WantsFetchFirstPage(c, key, page) == page = 1

\* if page == 1 or base_cache_key not in EXTENDED_CACHE
WantsFetch(c, key, page) == page = 1 \/ key \notin DOMAIN c

\* EXTENDED_CACHE[base_cache_key] = (articles, now)
StoreEntry(c, key, articles, now) ==
    (key :> [articles |-> articles, timestamp |-> now]) @@ c

\* fetch_news from its entry to its first await: it returns (ret) a page of the
\* cache or nothing, or it is left waiting for the first upstream response.
FetchNewsEnter(c, now, query, max_results, page) ==
    LET key == CacheKey(query)
        start == (page - 1) * max_results
    IN IF CacheHit(c, key, now, start)
       THEN [ret |-> TRUE, fanout |-> 0,
             articles |-> Slice(c[key].articles, start, start + max_results)]
       ELSE IF WantsFetch(c, key, page)
            THEN [ret |-> ~KeyConfigured, fanout |-> 1, articles |-> <<>>]
            ELSE [ret |-> TRUE, fanout |-> 0, articles |-> <<>>]

\* The slot's fields when a fetch_news call begins.
EnterCall(s, now, query, max_results, page, e) ==
    [s EXCEPT !.query = query, !.max_results = max_results, !.page = page,
              !.now = now, !.fanout = e.fanout,
              !.vi = IF e.ret THEN 0 ELSE 1,
              !.calls = IF e.ret THEN 0 ELSE 1,
              !.all_articles = <<>>, !.seen_urls = {}]

\* (mutant of CacheAfterFetch: the result is stored even when it is empty)
CacheAfterFetchAlways(c, s) ==
    StoreEntry(c, CacheKey(s.query), s.all_articles, s.now)

\* (mutant of CacheAfterFetch: an entry with a later timestamp is kept)
CacheAfterFetchKeepNewer(c, s) ==
    IF /\ s.all_articles # <<>>
       /\ ~(CacheKey(s.query) \in DOMAIN c /\ c[CacheKey(s.query)].timestamp > s.now)
    THEN StoreEntry(c, CacheKey(s.query), s.all_articles, s.now)
    ELSE c

\* fetch_news after fetch_news_batch returned: "if articles:" store and slice.
CacheAfterFetch(c, s) ==
    IF s.all_articles # <<>>
    THEN StoreEntry(c, CacheKey(s.query), s.all_articles, s.now)
    ELSE c

PageAfterFetch(s) ==
    IF s.all_articles # <<>>
    THEN Slice(s.all_articles, (s.page - 1) * s.max_results,
               (s.page - 1) * s.max_results + s.max_results)
    ELSE <<>>

\* --------------------------------------------------------------- search_news
\* (mutant of HasMore: the length of the entry is not compared)
HasMoreExists(c, query, max_results, page) == CacheKey(query) \in DOMAIN c

\* (mutant of HasMore: the start of the served page is compared, not the start
\* of the next one)
HasMoreFromStart(c, query, max_results, page) ==
    LET key == CacheKey(query) IN
    /\ key \in DOMAIN c
    /\ (page - 1) * max_results < Len(c[key].articles)

\* has_more, read from the cache after fetch_news returned.
HasMore(c, query, max_results, page) ==
    LET key == CacheKey(query) IN
    /\ key \in DOMAIN c
    /\ page * max_results < Len(c[key].articles)

SearchDone(s, c, articles) ==
    [s EXCEPT !.pc = "done", !.status = 200, !.results = articles,
              !.has_more = HasMore(c, s.query, s.max_results, s.page)]

\* GET /news?q=..&max=..&page=..
StartSearch(p, q, m, pg) ==
    /\ procs[p].pc = "idle"
    /\ LET e == FetchNewsEnter(cache, clock, q, m, pg)
           s == EnterCall([procs[p] EXCEPT !.kind = "search"], clock, q, m, pg, e)
       IN procs' = [procs EXCEPT ![p] =
                        IF e.ret THEN SearchDone(s, cache, e.articles)
                        ELSE [s EXCEPT !.pc = "await"]]
    /\ UNCHANGED <<apiKey, clock, cache>>

\* ------------------------------------------------------ get_personalized_feed
\* An element of the feed's all_articles is the very dict the cache entry of
\* `key` held at place `idx` when it was appended: while that entry stands
\* (live) the element is read through the cache, and `art` is its value from
\* the moment the entry is replaced.
FeedRef(key, idx, art) == [key |-> key, idx |-> idx, live |-> TRUE, art |-> art]

ResolveArticle(c, e) == IF e.live THEN c[e.key].articles[e.idx] ELSE e.art

\* The entry of `key` is about to be replaced: the dicts it holds live on only
\* in the feeds that reference them.
Detach(ps, c, key) ==
    [p \in Procs |->
        [ps[p] EXCEPT !.feed_articles =
            [i \in 1..Len(ps[p].feed_articles) |->
                LET e == ps[p].feed_articles[i] IN
                IF e.live /\ e.key = key
                THEN [e EXCEPT !.live = FALSE, !.art = c[key].articles[e.idx]]
                ELSE e]]]

\* article["topic"] = topic: the dict is the cached one, so the tag is written
\* into the cache entry.
TagArticle(a, topic) == [a EXCEPT !.topic = topic]

\* for article in articles: if article["url"] not in seen_urls: tag, append, add.
\* The articles fetch_news returned are the dicts at places i..n of the entry.
RECURSIVE MergeFeed(_, _, _, _, _, _)
MergeFeed(s, c, key, topic, i, n) ==
    IF i > n
    THEN [s |-> s, c |-> c]
    ELSE LET a == c[key].articles[i] IN
         IF a.url \notin s.feed_seen
         THEN LET tagged == TagArticle(a, topic) IN
              MergeFeed([s EXCEPT !.feed_articles = Append(@, FeedRef(key, i, tagged)),
                                  !.feed_seen = @ \cup {a.url}],
                        [c EXCEPT ![key].articles[i] = tagged],
                        key, topic, i + 1, n)
         ELSE MergeFeed(s, c, key, topic, i + 1, n)

\* return {"results": all_articles, "total": len(all_articles)}
FeedDone(s, c) ==
    [s EXCEPT !.pc = "done", !.status = 200,
              !.results = [i \in 1..Len(s.feed_articles) |->
                              ResolveArticle(c, s.feed_articles[i])],
              !.feed_articles = <<>>, !.feed_seen = {}]

\* (mutant of FeedTopics: the topic list is not cut)
FeedTopicsAll(topics) == topics

\* topics[:5]
FeedTopics(topics) == SubSeq(topics, 1, Min(Len(topics), FEED_TOPIC_CAP))

\* for topic in topics[:5]: articles = await fetch_news(topic, 5); merge.
\* Runs from topic number s.ti until a fetch_news call has to wait for the
\* upstream, or until the topics are exhausted.
RECURSIVE FeedLoop(_, _, _)
FeedLoop(s, c, now) ==
    IF s.ti > Len(FeedTopics(s.topics))
    THEN [s |-> FeedDone(s, c), c |-> c]
    ELSE LET topic == FeedTopics(s.topics)[s.ti]
             e == FetchNewsEnter(c, now, topic, FEED_PAGE_SIZE, 1)
             s1 == EnterCall(s, now, topic, FEED_PAGE_SIZE, 1, e)
         IN IF e.ret
            THEN LET m == MergeFeed(s1, c, CacheKey(topic), topic, 1, Len(e.articles))
                 IN FeedLoop([m.s EXCEPT !.ti = @ + 1], m.c, now)
            ELSE [s |-> [s1 EXCEPT !.pc = "await"], c |-> c]

\* GET /feed/personalized for a user whose saved_topics are `topics`.
StartFeed(p, topics) ==
    /\ procs[p].pc = "idle"
    /\ IF topics = <<>>
       THEN /\ procs' = [procs EXCEPT ![p] =
                            [@ EXCEPT !.pc = "done", !.kind = "feed", !.status = 200,
                                      !.message = "no_topics"]]
            /\ cache' = cache
       ELSE \E f \in {FeedLoop([procs[p] EXCEPT !.kind = "feed", !.topics = topics,
                                                  !.ti = 1],
                                 cache, clock)} :
               /\ procs' = [procs EXCEPT ![p] = f.s]
               /\ cache' = f.c
    /\ UNCHANGED <<apiKey, clock>>

\* The upstream answers the request that slot p is waiting for: the fan-out
\* goes on to its next variation, or it returns and fetch_news and its caller
\* run on to their end or to the next await.
UpstreamResponse(p, r) ==
    /\ procs[p].pc = "await"
    /\ \E b \in {BatchOnResponse(procs[p], r)} :
       IF ~b.returned
       THEN /\ procs' = [procs EXCEPT ![p] = b.s]
            /\ cache' = cache
       ELSE LET key == CacheKey(b.s.query)
                replaced == b.s.all_articles # <<>> /\ key \in DOMAIN cache
                ps == IF replaced THEN Detach(procs, cache, key) ELSE procs
                c1 == CacheAfterFetch(cache, b.s)
                page == PageAfterFetch(b.s)
            IN IF b.s.kind = "search"
               THEN /\ cache' = c1
                    /\ procs' = [ps EXCEPT ![p] = SearchDone(b.s, c1, page)]
               ELSE \E m \in {MergeFeed([b.s EXCEPT !.feed_articles = ps[p].feed_articles],
                                         c1, key, b.s.query, 1, Len(page))} :
                    \E f \in {FeedLoop([m.s EXCEPT !.ti = @ + 1], m.c, clock)} :
                       /\ cache' = f.c
                       /\ procs' = [ps EXCEPT ![p] = f.s]
    /\ UNCHANGED <<apiKey, clock>>

\* The response has been sent; the slot is free again.
Finish(p) ==
    /\ procs[p].pc = "done"
    /\ procs' = [procs EXCEPT ![p] = Idle]
    /\ UNCHANGED <<apiKey, clock, cache>>

Tick ==
    /\ clock + TickStep <= MaxTicks * TickStep
    /\ clock' = clock + TickStep
    /\ UNCHANGED <<apiKey, cache, procs>>

\* ------------------------------------------------------------------ class DB
\* What a call of DB.save may do to the file: write the whole document, fail to
\* open it (the file stays), or fail after open(.., "w") emptied it.
SaveOutcomes == {"written", "unopened", "truncated"}

\* DB.save: json.dump(cls._data, f); an exception is printed and swallowed.
Save(data, file, w) ==
    CASE w = "written" -> Document(data)
      [] w = "unopened" -> file
      [] OTHER -> Truncated

\* secrets.token_hex(16): an id no user has yet.
FreshId(data) == Cardinality(DOMAIN data.users) + 1

\* DB.get_user_by_email
HasUserByEmail(data, email) == LowerStr(email) \in DOMAIN data.users

\* DB.get_user_by_id: the key of the user with this id.
EmailOfId(data, user_id) == CHOOSE e \in DOMAIN data.users : data.users[e].id = user_id

HasUserId(data, user_id) == \E e \in DOMAIN data.users : data.users[e].id = user_id

\* (mutant of CreateUser: the user's favorites list is not created)
CreateUserNoFavorites(data, email) ==
    LET key == LowerStr(email) IN
    IF key \in DOMAIN data.users
    THEN [conflict |-> TRUE, data |-> data, id |-> 0]
    ELSE [conflict |-> FALSE, id |-> FreshId(data),
          data |-> [data EXCEPT !.users = (key :> [id |-> FreshId(data), email |-> key,
                                                   saved_topics |-> <<>>]) @@ @]]

\* DB.create_user up to its call of save (name, password hash and creation time
\* are stored and never read by the operations modelled here).
CreateUser(data, email) ==
    LET key == LowerStr(email) IN
    IF key \in DOMAIN data.users
    THEN [conflict |-> TRUE, data |-> data, id |-> 0]
    ELSE [conflict |-> FALSE, id |-> FreshId(data),
          data |-> [users |-> (key :> [id |-> FreshId(data), email |-> key,
                                       saved_topics |-> <<>>]) @@ data.users,
                    favorites |-> (FreshId(data) :> <<>>) @@ data.favorites]]

\* DB.update_topics up to its call of save.
UpdateTopics(data, user_id, topics) ==
    IF HasUserId(data, user_id)
    THEN [data EXCEPT !.users[EmailOfId(data, user_id)].saved_topics = topics]
    ELSE data

\* (mutant of IsFavorite: the whole article is compared, not its url)
IsFavoriteArticle(favs, article) == \E i \in 1..Len(favs) : favs[i] = article

\* for fav in favorites[user_id]: if fav.get("url") == article.get("url")
IsFavorite(favs, article) == \E i \in 1..Len(favs) : favs[i].url = article.url

\* DB.add_favorite up to its call of save.
DBAddFavorite(data, user_id, article) ==
    LET d1 == IF user_id \in DOMAIN data.favorites THEN data
              ELSE [data EXCEPT !.favorites = (user_id :> <<>>) @@ @]
    IN IF IsFavorite(d1.favorites[user_id], article)
       THEN [res |-> FALSE, data |-> d1]
       ELSE [res |-> TRUE,
             data |-> [d1 EXCEPT !.favorites[user_id] = Append(@, article)]]

\* [f for f in favorites[user_id] if f.get("url") != url]
RECURSIVE WithoutUrl(_, _)
WithoutUrl(favs, url) ==
    IF favs = <<>> THEN <<>>
    ELSE IF Head(favs).url # url
         THEN <<Head(favs)>> \o WithoutUrl(Tail(favs), url)
         ELSE WithoutUrl(Tail(favs), url)

\* DB.remove_favorite up to its call of save.
DBRemoveFavorite(data, user_id, url) ==
    IF user_id \notin DOMAIN data.favorites
    THEN [res |-> FALSE, data |-> data]
    ELSE LET d1 == [data EXCEPT !.favorites[user_id] = WithoutUrl(@, url)]
         IN [res |-> Len(d1.favorites[user_id]) < Len(data.favorites[user_id]),
             data |-> d1]

\* ------------------------------------------- users, topics, favorites handlers
\* An answer: its status and message (or error detail), what the DB method
\* returned, and the topics, user id and favorites_count of its body.
Reply(op, status, detail, res, topics, uid) ==
    [op |-> op, status |-> status, detail |-> detail, res |-> res, topics |-> topics,
     uid |-> uid, favorites_count |-> 0]

\* "@" in email and "." in email.split("@")[-1]
ValidEmailFormat(email) ==
    \E i \in 1..Len(email) :
        /\ email[i] = "@"
        /\ \A j \in (i + 1)..Len(email) : email[j] # "@"
        /\ \E j \in (i + 1)..Len(email) : email[j] = "."

\* POST /auth/signup.  The handlers below have no await: each runs as one step.
Signup(raw, w) ==
    /\ LET email == Strip(LowerStr(raw)) IN
       IF ~ValidEmailFormat(email)
       THEN /\ reply' = Reply("signup", 400, "Invalid email format", FALSE, <<>>, 0)
            /\ UNCHANGED <<db, disk>>
       ELSE IF HasUserByEmail(db, email)
       THEN /\ reply' = Reply("signup", 400, "Email already registered", FALSE, <<>>, 0)
            /\ UNCHANGED <<db, disk>>
       ELSE \E c \in {CreateUser(db, email)} :
            IF c.conflict
            THEN /\ reply' = Reply("signup", 409, "Email already registered", FALSE, <<>>, 0)
                 /\ UNCHANGED <<db, disk>>
            ELSE /\ db' = c.data
                 /\ disk' = Save(c.data, disk, w)
                 /\ reply' = Reply("signup", 201, "Account created successfully", TRUE, <<>>,
                                       c.id)
    /\ UNCHANGED <<apiKey, clock, cache, procs>>

\* (mutant of TopicSaved: the topics are compared as they are written)
TopicSavedExact(current, topic) == \E i \in 1..Len(current) : current[i] = topic

\* topic.lower() in [t.lower() for t in current]
TopicSaved(current, topic) ==
    \E i \in 1..Len(current) : LowerStr(current[i]) = LowerStr(topic)

\* POST /topics by the user with id user_id (require_auth found the user).
SaveTopic(user_id, raw, w) ==
    /\ HasUserId(db, user_id)
    /\ LET topic == Strip(raw)
           current == db.users[EmailOfId(db, user_id)].saved_topics
       IN IF TopicSaved(current, topic)
          THEN /\ reply' = Reply("save_topic", 200, "Topic already saved", FALSE, current,
                                user_id)
               /\ UNCHANGED <<db, disk>>
          ELSE \E d \in {UpdateTopics(db, user_id, Append(current, topic))} :
               /\ db' = d
               /\ disk' = Save(d, disk, w)
               /\ reply' = Reply("save_topic", 200, "Topic saved", TRUE,
                                Append(current, topic), user_id)
    /\ UNCHANGED <<apiKey, clock, cache, procs>>

\* [t for t in current if t.lower() != topic.lower()]
RECURSIVE WithoutTopic(_, _)
WithoutTopic(current, topic) ==
    IF current = <<>> THEN <<>>
    ELSE IF LowerStr(Head(current)) # LowerStr(topic)
         THEN <<Head(current)>> \o WithoutTopic(Tail(current), topic)
         ELSE WithoutTopic(Tail(current), topic)

\* DELETE /topics/{topic}
RemoveTopic(user_id, topic, w) ==
    /\ HasUserId(db, user_id)
    /\ LET current == db.users[EmailOfId(db, user_id)].saved_topics IN
       \E d \in {UpdateTopics(db, user_id, WithoutTopic(current, topic))} :
           /\ db' = d
           /\ disk' = Save(d, disk, w)
           /\ reply' = Reply("remove_topic", 200, "Topic removed", TRUE,
                             WithoutTopic(current, topic), user_id)
    /\ UNCHANGED <<apiKey, clock, cache, procs>>

\* PUT /topics
PutTopics(user_id, topics, w) ==
    /\ HasUserId(db, user_id)
    /\ \E d \in {UpdateTopics(db, user_id, topics)} :
           /\ db' = d
           /\ disk' = Save(d, disk, w)
           /\ reply' = Reply("update_topics", 200, "Topics updated", TRUE, topics, user_id)
    /\ UNCHANGED <<apiKey, clock, cache, procs>>

\* POST /favorites: 400 when DB.add_favorite returns False.
AddFavorite(user_id, article, w) ==
    /\ HasUserId(db, user_id)
    /\ \E r \in {DBAddFavorite(db, user_id, article)} :
           /\ db' = r.data
           /\ disk' = IF r.res THEN Save(r.data, disk, w) ELSE disk
           /\ reply' = IF r.res
                        THEN Reply("add_favorite", 200, "Article added to favorites", TRUE,
                                   <<>>, user_id)
                        ELSE Reply("add_favorite", 400, "Article already in favorites",
                                   FALSE, <<>>, user_id)
    /\ UNCHANGED <<apiKey, clock, cache, procs>>

\* DELETE /favorites?url=: answers 200 whatever DB.remove_favorite returns.
RemoveFavorite(user_id, url, w) ==
    /\ HasUserId(db, user_id)
    /\ \E r \in {DBRemoveFavorite(db, user_id, url)} :
           /\ db' = r.data
           /\ disk' = IF r.res THEN Save(r.data, disk, w) ELSE disk
           /\ reply' = Reply("remove_favorite", 200, "Article removed from favorites",
                             r.res, <<>>, user_id)
    /\ UNCHANGED <<apiKey, clock, cache, procs>>

\* ------------------------------------------------------------ fan-out history
RecordResponse(h, s, r) ==
    IF r.type # "ok"
    THEN [h EXCEPT !.failed = TRUE]
    ELSE [h EXCEPT
            !.dropped = @ \/ \E i \in 1..Len(r.items) :
                                \/ r.items[i] = NoUrl
                                \/ (r.items[i] # NoUrl /\ h.firstVar[r.items[i]] # 0)
                                \/ \E j \in 1..(i - 1) : r.items[j] = r.items[i],
            !.firstVar = [u \in Urls |->
                IF h.firstVar[u] = 0 /\ \E i \in 1..Len(r.items) : r.items[i] = u
                THEN s.vi ELSE h.firstVar[u]],
            !.firstPos = [u \in Urls |->
                IF h.firstVar[u] = 0 /\ \E i \in 1..Len(r.items) : r.items[i] = u
                THEN CHOOSE i \in 1..Len(r.items) :
                        /\ r.items[i] = u
                        /\ \A j \in 1..(i - 1) : r.items[j] # u
                ELSE h.firstPos[u]]]

\* The fetch_news call that stores an entry, and the page it returned.
RecordStore(fc, s, r) ==
    LET b == BatchOnResponse(s, r) IN
    IF b.returned /\ b.s.all_articles # <<>>
    THEN (CacheKey(s.query) :> [max_results |-> s.max_results, page |-> s.page,
                                results |-> PageAfterFetch(b.s)]) @@ fc
    ELSE fc

\* The urls of the pages fetch_news returned, straight from the cache c, for
\* the topics number first..last of a feed request.
HitPages(topics, c, now, first, last) ==
    [k \in 1..(last - first + 1) |->
        {a.url : a \in
            {FetchNewsEnter(c, now, topics[first + k - 1], FEED_PAGE_SIZE, 1).articles[i] :
                i \in 1..Len(FetchNewsEnter(c, now, topics[first + k - 1],
                                            FEED_PAGE_SIZE, 1).articles)}}]

\* Slot p takes up a feed request: the topics it got through before its first
\* await were served from the cache.
RecordFeedStart(fh, p) ==
    [fh EXCEPT ![p] = HitPages(procs'[p].topics, cache, clock, 1, procs'[p].ti - 1)]

\* The upstream answers slot p: when its fan-out returns to a feed request, the
\* topic waited for got the page of the fresh list, and the topics after it, up
\* to the next await, were served from the cache.
RecordFeedResponse(fh, p, r) ==
    LET b == BatchOnResponse(procs[p], r) IN
    IF procs[p].kind = "feed" /\ b.returned
    THEN [fh EXCEPT ![p] =
            @ \o <<{PageAfterFetch(b.s)[i].url : i \in 1..Len(PageAfterFetch(b.s))}>>
              \o HitPages(procs[p].topics, CacheAfterFetch(cache, b.s), clock,
                          procs[p].ti + 1, procs'[p].ti - 1)]
    ELSE fh

\* ------------------------------------------------------------ specifications
\* The cache and its callers, one request at a time in slot 1.
CacheUrls == {"u1", "u2"}

Next ==
    \/ Tick /\ UNCHANGED <<hist, firstCall, feedHist, store>>
    \/ \E q \in RawQueries, m \in PageSizes, pg \in Pages :
            StartSearch(1, q, m, pg) /\ UNCHANGED <<hist, firstCall, feedHist, store>>
    \/ \E topics \in TopicLists : StartFeed(1, topics) /\ UNCHANGED <<hist, firstCall, feedHist, store>>
    \/ \E r \in Responses(CacheUrls) :
            UpstreamResponse(1, r) /\ UNCHANGED <<hist, firstCall, feedHist, store>>
    \/ Finish(1) /\ UNCHANGED <<hist, firstCall, feedHist, store>>

Spec == Init /\ [][Next]_vars

\* The fan-out by itself, with its history recorded: page-1 requests for one
\* key at one instant, the provider answering with any list over three urls,
\* items without url included.
InitBatch ==
    /\ apiKey = TRUE
    /\ clock = 0
    /\ cache = EmptyCache
    /\ procs = [p \in Procs |-> Idle]
    /\ hist = NoHist
    /\ firstCall = EmptyCache
    /\ feedHist = [p \in Procs |-> <<>>]
    /\ db = EmptyData
    /\ disk = Document(EmptyData)
    /\ reply = NoReply

NextBatch ==
    \/ StartSearch(1, <<"A">>, 2, 1) /\ hist' = NoHist /\ UNCHANGED <<firstCall, feedHist, store>>
    \/ StartFeed(1, << <<"A">> >>) /\ hist' = NoHist /\ UNCHANGED <<firstCall, feedHist, store>>
    \/ \E r \in Responses(Urls \cup {NoUrl}) :
            /\ UpstreamResponse(1, r)
            /\ hist' = RecordResponse(hist, procs[1], r)
            /\ UNCHANGED <<firstCall, feedHist, store>>
    \/ Finish(1) /\ hist' = NoHist /\ UNCHANGED <<firstCall, feedHist, store>>

SpecBatch == InitBatch /\ [][NextBatch]_vars

\* Repeated page-1 requests for one key, with the storing call recorded.
NextIdem ==
    \/ Tick /\ UNCHANGED <<hist, firstCall, feedHist, store>>
    \/ \E q \in {<<"A">>, <<"a", " ">>}, m \in PageSizes :
            StartSearch(1, q, m, 1) /\ UNCHANGED <<hist, firstCall, feedHist, store>>
    \/ StartFeed(1, << <<"A">> >>) /\ UNCHANGED <<hist, firstCall, feedHist, store>>
    \/ \E r \in Responses(CacheUrls) :
            /\ UpstreamResponse(1, r)
            /\ firstCall' = RecordStore(firstCall, procs[1], r)
            /\ UNCHANGED <<hist, feedHist, store>>
    \/ Finish(1) /\ UNCHANGED <<hist, firstCall, feedHist, store>>

SpecIdem == InitBatch /\ [][NextIdem]_vars

\* Two requests for one key in flight at once.
NextConc ==
    \/ Tick /\ UNCHANGED <<hist, firstCall, feedHist, store>>
    \/ \E p \in Procs, pg \in Pages :
            StartSearch(p, <<"b">>, 1, pg) /\ UNCHANGED <<hist, firstCall, feedHist, store>>
    \/ \E p \in Procs : StartFeed(p, << <<"b">> >>) /\ UNCHANGED <<hist, firstCall, feedHist, store>>
    \/ \E p \in Procs, r \in Responses(CacheUrls) :
            UpstreamResponse(p, r) /\ UNCHANGED <<hist, firstCall, feedHist, store>>
    \/ \E p \in Procs : Finish(p) /\ UNCHANGED <<hist, firstCall, feedHist, store>>

SpecConc == InitBatch /\ [][NextConc]_vars

\* A query with many results: the provider answers each variation with one of
\* two lists of six items (together twelve urls), with an error status or not
\* at all.  /news requests of page size 10 for one key, pages 1 and 2.
BulkA == <<"n1", "n2", "n3", "n4", "n5", "n6">>

BulkB == <<"n7", "n8", "n9", "n10", "n11", "n12">>

BulkResponses ==
    {[type |-> "ok", items |-> BulkA], [type |-> "ok", items |-> BulkB],
     [type |-> "status", items |-> <<>>], [type |-> "exc", items |-> <<>>]}

NextPage ==
    \/ Tick /\ UNCHANGED <<hist, firstCall, feedHist, store>>
    \/ \E pg \in Pages :
            StartSearch(1, <<"A", " ">>, 10, pg) /\ UNCHANGED <<hist, firstCall, feedHist, store>>
    \/ \E r \in BulkResponses :
            UpstreamResponse(1, r) /\ UNCHANGED <<hist, firstCall, feedHist, store>>
    \/ Finish(1) /\ UNCHANGED <<hist, firstCall, feedHist, store>>

SpecPage == InitBatch /\ [][NextPage]_vars

\* The feed of a user with six saved topics and of one with two.  The
\* provider has six articles of its own for every topic, and answers a request
\* with the list of the topic asked for, with an empty list, with an error
\* status or not at all.
ManyTopics == << <<"a">>, <<"b">>, <<"c">>, <<"d">>, <<"e">>, <<"f">> >>

FewTopics == << <<"a">>, <<"b">> >>

TopicUrls ==
    [a |-> <<"a1", "a2", "a3", "a4", "a5", "a6">>,
     b |-> <<"b1", "b2", "b3", "b4", "b5", "b6">>,
     c |-> <<"c1", "c2", "c3", "c4", "c5", "c6">>,
     d |-> <<"d1", "d2", "d3", "d4", "d5", "d6">>,
     e |-> <<"e1", "e2", "e3", "e4", "e5", "e6">>,
     f |-> <<"f1", "f2", "f3", "f4", "f5", "f6">>]

TopicResponses(query) ==
    {[type |-> "ok", items |-> TopicUrls[CacheKey(query)[1]]],
     [type |-> "ok", items |-> <<>>],
     [type |-> "status", items |-> <<>>], [type |-> "exc", items |-> <<>>]}

NextCap ==
    \/ \E topics \in {ManyTopics, FewTopics} :
            StartFeed(1, topics) /\ UNCHANGED <<hist, firstCall, feedHist, store>>
    \/ /\ procs[1].pc = "await"
       /\ \E r \in TopicResponses(procs[1].query) :
            UpstreamResponse(1, r) /\ UNCHANGED <<hist, firstCall, feedHist, store>>
    \/ Finish(1) /\ UNCHANGED <<hist, firstCall, feedHist, store>>

SpecCap == InitBatch /\ [][NextCap]_vars

\* Two users' feeds and a search in flight at once: one user saved the topics
\* "A" and "b", the other the topic "a".
NextFeeds ==
    \/ /\ StartFeed(1, << <<"A">>, <<"b">> >>)
       /\ feedHist' = RecordFeedStart(feedHist, 1)
       /\ UNCHANGED <<hist, firstCall, store>>
    \/ /\ StartFeed(2, << <<"a">> >>)
       /\ feedHist' = RecordFeedStart(feedHist, 2)
       /\ UNCHANGED <<hist, firstCall, store>>
    \/ StartSearch(2, <<"b">>, 1, 1) /\ UNCHANGED <<hist, firstCall, feedHist, store>>
    \/ \E p \in Procs, r \in Responses(CacheUrls) :
            /\ UpstreamResponse(p, r)
            /\ feedHist' = RecordFeedResponse(feedHist, p, r)
            /\ UNCHANGED <<hist, firstCall, store>>
    \/ \E p \in Procs :
            /\ Finish(p)
            /\ feedHist' = [feedHist EXCEPT ![p] = <<>>]
            /\ UNCHANGED <<hist, firstCall, store>>

SpecFeeds == InitBatch /\ [][NextFeeds]_vars

\* The user store by itself.  Emails written in several ways, one of them not
\* an email; the ids a token may carry; topics and favorites to save.
Emails ==
    {<<"a", "@", "b", ".", "c">>, <<"A", "@", "B", ".", "c">>,
     <<" ", "a", "@", "b", ".", "c">>, <<"b", "@", "b", ".", "c">>, <<"a", "@", "b">>}

UserIds == {1, 2}

Topics == {<<"a">>, <<"A">>, <<"a", " ">>, <<"b">>}

Articles == [url : {"u1", "u2"}, title : {"t1", "t2"}]

\* Signups and favorites, every save succeeding.
NextUsers ==
    \/ \E raw \in Emails : Signup(raw, "written") /\ UNCHANGED <<hist, firstCall, feedHist>>
    \/ \E u \in UserIds, a \in Articles :
            AddFavorite(u, a, "written") /\ UNCHANGED <<hist, firstCall, feedHist>>
    \/ \E u \in UserIds, a \in Articles :
            RemoveFavorite(u, a.url, "written") /\ UNCHANGED <<hist, firstCall, feedHist>>

SpecUsers == InitBatch /\ [][NextUsers]_vars

\* Every request that changes the store, with saves that may fail.
StoreEmails == {<<"a", "@", "b", ".", "c">>, <<"b", "@", "b", ".", "c">>}

StoreTopics == {<<"a">>}

StoreArticles == [url : {"u1"}, title : {"t1"}]

NextPersist ==
    \/ \E raw \in StoreEmails, w \in SaveOutcomes :
            Signup(raw, w) /\ UNCHANGED <<hist, firstCall, feedHist>>
    \/ \E u \in UserIds, t \in StoreTopics, w \in SaveOutcomes :
            SaveTopic(u, t, w) /\ UNCHANGED <<hist, firstCall, feedHist>>
    \/ \E u \in UserIds, t \in StoreTopics, w \in SaveOutcomes :
            RemoveTopic(u, t, w) /\ UNCHANGED <<hist, firstCall, feedHist>>
    \/ \E u \in UserIds, w \in SaveOutcomes :
            PutTopics(u, <<>>, w) /\ UNCHANGED <<hist, firstCall, feedHist>>
    \/ \E u \in UserIds, a \in StoreArticles, w \in SaveOutcomes :
            AddFavorite(u, a, w) /\ UNCHANGED <<hist, firstCall, feedHist>>
    \/ \E u \in UserIds, a \in StoreArticles, w \in SaveOutcomes :
            RemoveFavorite(u, a.url, w) /\ UNCHANGED <<hist, firstCall, feedHist>>

SpecPersist == InitBatch /\ [][NextPersist]_vars

\* The topics of two users: saved one at a time in several spellings, removed,
\* or replaced as a whole.
NextTopics ==
    \/ \E raw \in StoreEmails :
            Signup(raw, "written") /\ UNCHANGED <<hist, firstCall, feedHist>>
    \/ \E u \in UserIds, t \in Topics :
            SaveTopic(u, t, "written") /\ UNCHANGED <<hist, firstCall, feedHist>>
    \/ \E u \in UserIds, t \in Topics :
            RemoveTopic(u, t, "written") /\ UNCHANGED <<hist, firstCall, feedHist>>
    \/ \E u \in UserIds, ts \in {<<>>, << <<"a", " ">> >>} :
            PutTopics(u, ts, "written") /\ UNCHANGED <<hist, firstCall, feedHist>>

SpecTopics == InitBatch /\ [][NextTopics]_vars

\* Two requests for one key in flight at once (/news requests, or a /news
\* request and the feed of a user with that one topic), started at any times;
\* the provider answers with one article or fails.
RaceResponses ==
    {[type |-> "ok", items |-> <<"u1">>], [type |-> "ok", items |-> <<"u2">>],
     [type |-> "exc", items |-> <<>>]}

NextRace ==
    \/ Tick /\ UNCHANGED <<hist, firstCall, feedHist, store>>
    \/ \E p \in Procs :
            StartSearch(p, <<"b">>, 1, 1) /\ UNCHANGED <<hist, firstCall, feedHist, store>>
    \/ StartFeed(2, << <<"b">> >>) /\ UNCHANGED <<hist, firstCall, feedHist, store>>
    \/ \E p \in Procs, r \in RaceResponses :
            UpstreamResponse(p, r) /\ UNCHANGED <<hist, firstCall, feedHist, store>>
    \/ \E p \in Procs : Finish(p) /\ UNCHANGED <<hist, firstCall, feedHist, store>>

SpecRace == InitBatch /\ [][NextRace]_vars

\* /news requests of page size 5 for a query with many results, its first page
\* and a page beyond the results, while the entry ages and refreshes may fail.
NextMore ==
    \/ Tick /\ UNCHANGED <<hist, firstCall, feedHist, store>>
    \/ \E pg \in {1, 3} :
            StartSearch(1, <<"A", " ">>, 5, pg)
                /\ UNCHANGED <<hist, firstCall, feedHist, store>>
    \/ \E r \in BulkResponses :
            UpstreamResponse(1, r) /\ UNCHANGED <<hist, firstCall, feedHist, store>>
    \/ Finish(1) /\ UNCHANGED <<hist, firstCall, feedHist, store>>

SpecMore == InitBatch /\ [][NextMore]_vars

\* ===================================================================== claims
KeyOf(s) == CacheKey(s.query)

EntryFresh(c, key, now) == key \in DOMAIN c /\ now - c[key].timestamp < CACHE_TTL

EntryStale(c, key, now) == key \in DOMAIN c /\ now - c[key].timestamp >= CACHE_TTL

\* This step is slot p taking up a /news request (up to its first await).
StartsSearch(p) ==
    procs[p].pc = "idle" /\ procs'[p].pc # "idle" /\ procs'[p].kind = "search"

\* This step is the fan-out of slot p's /news request returning.
EndsFanout(p) ==
    /\ procs[p].pc # "done"
    /\ procs'[p].pc = "done"
    /\ procs'[p].kind = "search"
    /\ procs'[p].fanout = 1

UrlsOf(a) == {a[i].url : i \in 1..Len(a)}

UniqueUrls(a) == \A i, j \in 1..Len(a) : i # j => a[i].url # a[j].url

\* The page (page, size) of a stored sequence, element by element.
PageOf(stored, size, page) ==
    LET start == (page - 1) * size
        left == Len(stored) - start
        n == IF left < 0 THEN 0 ELSE Min(size, left)
    IN [i \in 1..n |-> stored[start + i]]

\* C1 (as claimed): a /news request for a query whose entry is stale, whatever
\* its page, runs one fan-out; and a fan-out that returns a non-empty list
\* replaces the entry by that list, stamped with the call's time.
C1_StaleAlwaysRefetches ==
    [][\A p \in Procs :
        /\ (StartsSearch(p) /\ EntryStale(cache, KeyOf(procs'[p]), clock))
              => procs'[p].fanout = 1
        /\ (EndsFanout(p) /\ procs'[p].all_articles # <<>>)
              => /\ KeyOf(procs'[p]) \in DOMAIN cache'
                 /\ cache'[KeyOf(procs'[p])] =
                        [articles |-> procs'[p].all_articles,
                         timestamp |-> procs'[p].now]]_vars

\* C2 (as claimed): when a variation of a fan-out failed (an error status or a
\* raised error), the fan-out still issued all five variations, and its list
\* holds every url a successful response delivered.
C2_FailureIsNotFatal ==
    (procs[1].pc = "done" /\ procs[1].fanout = 1 /\ hist.failed)
        => /\ procs[1].vi = Len(QUERY_VARIATIONS)
           /\ \A u \in Urls : hist.firstVar[u] # 0 => u \in UrlsOf(procs[1].all_articles)

\* C3 (as claimed): once a page-1 call of some size stored the entry of a key,
\* a page-1 call of that size made while the entry is fresh is served without
\* any upstream request and returns what that first call returned.
C3_HitsAreIdempotent ==
    [][\A p \in Procs :
        LET key == KeyOf(procs'[p]) IN
        (/\ StartsSearch(p)
         /\ procs'[p].page = 1
         /\ EntryFresh(cache, key, clock)
         /\ key \in DOMAIN firstCall
         /\ firstCall[key].page = 1
         /\ firstCall[key].max_results = procs'[p].max_results)
            => /\ procs'[p].pc = "done"
               /\ procs'[p].calls = 0
               /\ procs'[p].results = firstCall[key].results]_vars

\* C4: a /news request made while the key's entry is fresh returns at once
\* exactly the elements [(page-1)*size, page*size) of the stored sequence,
\* cut at its end.
C4_PaginationConsistent ==
    [][\A p \in Procs :
        LET key == KeyOf(procs'[p]) IN
        (StartsSearch(p) /\ EntryFresh(cache, key, clock))
            => /\ procs'[p].pc = "done"
               /\ procs'[p].results =
                    PageOf(cache[key].articles, procs'[p].max_results, procs'[p].page)]_vars

C4_Witness ==
    \E p \in Procs :
        /\ procs[p].pc = "done" /\ procs[p].kind = "search" /\ procs[p].fanout = 0
        /\ procs[p].page = 2 /\ procs[p].max_results = 1
        /\ KeyOf(procs[p]) \in DOMAIN cache
        /\ Len(cache[KeyOf(procs[p])].articles) = 2
        /\ procs[p].results = <<cache[KeyOf(procs[p])].articles[2]>>

\* C5: the list a fan-out builds never holds two articles with one url nor an
\* article without url, and so the articles of every cache entry are pairwise
\* distinct by url.
C5_Deduplicated ==
    /\ \A p \in Procs :
        /\ UniqueUrls(procs[p].all_articles)
        /\ UrlsOf(procs[p].all_articles) \subseteq Urls
    /\ \A k \in DOMAIN cache :
        /\ UniqueUrls(cache[k].articles)
        /\ UrlsOf(cache[k].articles) \subseteq Urls

C5_Witness ==
    /\ procs[1].pc = "done" /\ procs[1].fanout = 1
    /\ hist.dropped
    /\ Len(procs[1].all_articles) = 3
    /\ KeyOf(procs[1]) \in DOMAIN cache
    /\ cache[KeyOf(procs[1])].articles = procs[1].all_articles

\* u was first seen before v: in an earlier variation's response, or earlier in
\* the same response.
SeenBefore(u, v) ==
    \/ hist.firstVar[u] < hist.firstVar[v]
    \/ hist.firstVar[u] = hist.firstVar[v] /\ hist.firstPos[u] < hist.firstPos[v]

\* C6: the fan-out's list holds exactly the urls its responses delivered, in
\* first-seen order over the variation order, and within one response in that
\* response's order.
C6_FirstSeenOrder ==
    LET a == procs[1].all_articles IN
    /\ UrlsOf(a) = {u \in Urls : hist.firstVar[u] # 0}
    /\ \A i, j \in 1..Len(a) : i < j => SeenBefore(a[i].url, a[j].url)

C6_Witness ==
    LET a == procs[1].all_articles IN
    /\ procs[1].pc = "done" /\ procs[1].fanout = 1
    /\ Len(a) = 3
    /\ hist.firstVar[a[1].url] = hist.firstVar[a[2].url]
    /\ hist.firstVar[a[2].url] < hist.firstVar[a[3].url]
    /\ hist.dropped

\* C7: a fan-out that returns an empty list leaves the whole cache as it was
\* (no entry created, a stale entry kept with its list and timestamp), and the
\* call returns no results.
C7_FailedRefreshKeepsCache ==
    [][\A p \in Procs :
        (EndsFanout(p) /\ procs'[p].all_articles = <<>>)
            => cache' = cache /\ procs'[p].results = <<>>]_vars

C7_Witness ==
    \E p \in Procs :
        /\ procs[p].pc = "done" /\ procs[p].kind = "search" /\ procs[p].fanout = 1
        /\ procs[p].calls > 0
        /\ procs[p].all_articles = <<>> /\ procs[p].results = <<>>
        /\ EntryStale(cache, KeyOf(procs[p]), procs[p].now)

\* C8: a /news request for a page that starts at or beyond the end of a fresh
\* entry returns an empty list at once, issues no upstream request and leaves
\* the cache unchanged.
C8_DeepPageNoFetch ==
    [][\A p \in Procs :
        LET key == KeyOf(procs'[p]) IN
        (/\ StartsSearch(p)
         /\ EntryFresh(cache, key, clock)
         /\ (procs'[p].page - 1) * procs'[p].max_results >= Len(cache[key].articles))
            => /\ procs'[p].pc = "done"
               /\ procs'[p].results = <<>>
               /\ procs'[p].calls = 0
               /\ procs'[p].fanout = 0
               /\ cache' = cache]_vars

C8_Witness ==
    \E p \in Procs :
        /\ procs[p].pc = "done" /\ procs[p].kind = "search" /\ procs[p].page = 2
        /\ procs[p].fanout = 0 /\ procs[p].results = <<>>
        /\ EntryFresh(cache, KeyOf(procs[p]), procs[p].now)
        /\ procs[p].max_results >= Len(cache[KeyOf(procs[p])].articles)

\* C9 (as claimed): without an API key a /news request is answered with
\* status 500, a configuration error.
C9_MissingKeyIsAnError ==
    \A p \in Procs :
        (~apiKey /\ procs[p].pc = "done" /\ procs[p].kind = "search")
            => procs[p].status = 500

\* C10: without an API key no request ever waits for or has issued an upstream
\* request, and the cache stays empty.
C10_FailFast ==
    ~apiKey => /\ \A p \in Procs : procs[p].calls = 0 /\ procs[p].pc # "await"
               /\ DOMAIN cache = {}

C10_Witness ==
    /\ ~apiKey
    /\ \E p \in Procs :
        /\ procs[p].pc = "done" /\ procs[p].kind = "feed"
        /\ Len(procs[p].topics) = 2 /\ procs[p].fanout = 1
        /\ procs[p].results = <<>>

\* This step is slot p's /news request being answered.
AnswersSearch(p) ==
    procs[p].pc # "done" /\ procs'[p].pc = "done" /\ procs'[p].kind = "search"

\* C11: the has_more of a /news response is true exactly when, once the page
\* is served, the normalized query has an entry and page * max is less than
\* the entry's length; a page-1 request of size 10 whose fan-out produced more
\* than 10 articles reports has_more.
C11_HasMore ==
    [][\A p \in Procs :
        LET s == procs'[p]
            key == Strip(LowerStr(s.query))
        IN /\ AnswersSearch(p)
                => (s.has_more <=> (/\ key \in DOMAIN cache'
                                    /\ s.page * s.max_results < Len(cache'[key].articles)))
           /\ (EndsFanout(p) /\ s.page = 1 /\ s.max_results = 10
                    /\ Len(s.all_articles) > 10)
                => s.has_more]_vars

C11_Witness ==
    /\ procs[1].pc = "done" /\ procs[1].kind = "search" /\ procs[1].fanout = 1
    /\ procs[1].page = 1 /\ procs[1].max_results = 10
    /\ Len(procs[1].all_articles) = 12
    /\ Len(procs[1].results) = 10
    /\ procs[1].has_more

\* C12 (as claimed): a /news request for a page beyond the first, made when the
\* normalized query has no cache entry, returns no results whatever the
\* provider answers.
C12_DeepPageWithoutEntryIsEmpty ==
    [][\A p \in Procs :
        (/\ AnswersSearch(p)
         /\ procs'[p].page > 1
         /\ KeyOf(procs'[p]) \notin DOMAIN cache)
            => procs'[p].results = <<>>]_vars

\* C12 (amended): such a request runs a fan-out when the API key is set; a
\* non-empty list is stored as the key's entry, and the call returns the
\* elements [(page-1)*size, page*size) of the list, so it returns no results
\* only when the list ends at or before the page's start.
C12_DeepPageWithoutEntryFetches ==
    [][\A p \in Procs :
        LET s == procs'[p]
            key == KeyOf(s)
        IN /\ (StartsSearch(p) /\ s.page > 1 /\ key \notin DOMAIN cache /\ apiKey)
                => s.pc = "await" /\ s.fanout = 1 /\ s.calls = 1
           /\ (AnswersSearch(p) /\ s.page > 1 /\ key \notin DOMAIN cache /\ apiKey)
                => /\ s.fanout = 1
                   /\ s.results = PageOf(s.all_articles, s.max_results, s.page)
                   /\ s.all_articles # <<>>
                        => /\ key \in DOMAIN cache'
                           /\ cache'[key].articles = s.all_articles]_vars

C12_Witness ==
    \E p \in Procs :
        /\ procs[p].pc = "done" /\ procs[p].kind = "search" /\ procs[p].fanout = 1
        /\ procs[p].page = 2 /\ procs[p].max_results = 1
        /\ Len(procs[p].all_articles) = 2
        /\ procs[p].results = <<procs[p].all_articles[2]>>

\* The number of topics the feed of a user with n saved topics may consult.
Consulted(n) == IF n < 5 THEN n ELSE 5

\* C13: a feed request of a user with n saved topics consults the first
\* min(n, 5) topics in order, each with page 1 and page size 5: no cache
\* lookup or upstream request is made for a later topic, no topic contributes
\* more than 5 articles, and the response holds at most 5 * min(n, 5) articles.
C13_FeedCap ==
    \A p \in Procs :
        LET s == procs[p]
            k == Consulted(Len(s.topics))
        IN s.kind = "feed" =>
            /\ s.ti <= k + 1
            /\ s.pc = "await" => (s.ti <= k /\ s.query = s.topics[s.ti])
            /\ s.pc = "done" => (s.topics # <<>> => s.ti = k + 1)
            /\ s.query # <<>> =>
                    /\ \E i \in 1..k : s.query = s.topics[i]
                    /\ s.max_results = 5 /\ s.page = 1
            /\ \A key \in DOMAIN cache : \E i \in 1..5 : key = CacheKey(ManyTopics[i])
            /\ Len(s.results) <= 5 * k
            /\ Len(s.feed_articles) <= 5 * k
            /\ \A i \in 1..Len(s.topics) :
                    Cardinality({j \in 1..Len(s.results) :
                                    s.results[j].topic = s.topics[i]}) <= 5

C13_Witness ==
    /\ procs[1].pc = "done" /\ procs[1].kind = "feed"
    /\ Len(procs[1].topics) = 6
    /\ Len(procs[1].results) = 25
    /\ \A key \in DOMAIN cache : Len(cache[key].articles) = 6
    /\ CacheKey(procs[1].topics[6]) \notin DOMAIN cache

\* The first topic of slot p's request whose page held the url u (0: none).
FirstTopicWith(p, u) ==
    LET K == {k \in 1..Len(feedHist[p]) : u \in feedHist[p][k]} IN
    IF K = {} THEN 0 ELSE CHOOSE k \in K : \A j \in K : k <= j

\* C14 (as claimed): in every feed response, other requests interleaved or
\* not, no two articles share a url and every article carries as its topic the
\* earliest topic of the user's list whose page returned the article's url.
C14_FeedAttribution ==
    \A p \in Procs :
        (procs[p].pc = "done" /\ procs[p].kind = "feed") =>
            /\ UniqueUrls(procs[p].results)
            /\ \A i \in 1..Len(procs[p].results) :
                LET k == FirstTopicWith(p, procs[p].results[i].url) IN
                /\ k # 0
                /\ procs[p].results[i].topic = procs[p].topics[k]

Untagged(a) == \A i \in 1..Len(a) : a[i].topic = NoTopic

\* C15 (as claimed): whatever search and feed requests were served, no article
\* of a cache entry and no article of a /news response carries a topic tag.
C15_TagOnlyInFeed ==
    /\ \A key \in DOMAIN cache : Untagged(cache[key].articles)
    /\ \A p \in Procs :
        (procs[p].pc = "done" /\ procs[p].kind = "search") => Untagged(procs[p].results)

\* C16: a signup with an email that equals a registered one ignoring case is
\* refused as a conflict and leaves users and favorites as they were; no two
\* user records have emails equal ignoring case; and a successful signup
\* creates a user whose favorites list is empty (favorites_count 0).
C16_EmailUnique ==
    [][/\ \A raw \in Emails :
            (/\ Signup(raw, "written")
             /\ \E e \in DOMAIN db.users : LowerStr(db.users[e].email) = LowerStr(raw))
                => /\ reply'.status \in {400, 409}
                   /\ reply'.detail = "Email already registered"
                   /\ db' = db
       /\ (reply'.op = "signup" /\ reply'.status = 201)
            => /\ ~HasUserId(db, reply'.uid)
               /\ \E e \in DOMAIN db'.users : db'.users[e].id = reply'.uid
               /\ reply'.uid \in DOMAIN db'.favorites
               /\ db'.favorites[reply'.uid] = <<>>
               /\ reply'.favorites_count = 0
               /\ \A u \in DOMAIN db.favorites : db'.favorites[u] = db.favorites[u]
       /\ \A e1, e2 \in DOMAIN db'.users :
            LowerStr(db'.users[e1].email) = LowerStr(db'.users[e2].email) => e1 = e2]_vars

C16_Witness ==
    /\ reply.op = "signup" /\ reply.detail = "Email already registered"
    /\ Cardinality(DOMAIN db.users) = 2
    /\ \E u \in DOMAIN db.favorites : db.favorites[u] # <<>>

HasUrl(favs, url) == \E i \in 1..Len(favs) : favs[i].url = url

\* C17: no user's favorites list ever holds two entries with one url; adding
\* an article whose url is already in the user's list returns false and leaves
\* the list as it was, and so does removing a url that is not in the list.
C17_FavoritesUnique ==
    [][/\ \A u \in UserIds, a \in Articles :
            /\ (AddFavorite(u, a, "written") /\ HasUrl(db.favorites[u], a.url))
                    => /\ reply'.res = FALSE
                       /\ db'.favorites[u] = db.favorites[u]
            /\ (RemoveFavorite(u, a.url, "written") /\ ~HasUrl(db.favorites[u], a.url))
                    => db'.favorites[u] = db.favorites[u]
       /\ \A u \in DOMAIN db'.favorites :
            \A i, j \in 1..Len(db'.favorites[u]) :
                i # j => db'.favorites[u][i].url # db'.favorites[u][j].url]_vars

C17_Witness ==
    /\ reply.op = "add_favorite" /\ reply.res = FALSE /\ reply.status = 400
    /\ Len(db.favorites[reply.uid]) = 2
    /\ \E u \in DOMAIN db.favorites : u # reply.uid /\ Len(db.favorites[u]) = 1

\* This step answered a request with the success of an operation that changes
\* the store (create user, update topics, add favorite, remove favorite).
StoreSuccess ==
    /\ reply'.op \in {"signup", "save_topic", "remove_topic", "update_topics",
                      "add_favorite", "remove_favorite"}
    /\ reply'.status \in {200, 201}
    /\ reply'.res = TRUE

\* C18 (as claimed): when an operation that changes the store reports success,
\* the file holds exactly the users and favorites in memory; and an operation
\* whose write of the file failed does not report success.
C18_WriteThrough ==
    [][/\ StoreSuccess => disk' = Document(db')
       /\ \A w \in SaveOutcomes \ {"written"} :
            (/\ db' # db
             /\ \/ \E raw \in StoreEmails : Signup(raw, w)
                \/ \E u \in UserIds, t \in StoreTopics : SaveTopic(u, t, w)
                \/ \E u \in UserIds, t \in StoreTopics : RemoveTopic(u, t, w)
                \/ \E u \in UserIds : PutTopics(u, <<>>, w)
                \/ \E u \in UserIds, a \in StoreArticles : AddFavorite(u, a, w)
                \/ \E u \in UserIds, a \in StoreArticles : RemoveFavorite(u, a.url, w))
                => ~StoreSuccess]_vars

SavedTopics(data, u) == data.users[EmailOfId(data, u)].saved_topics

EqualIgnoringCase(current, topic) ==
    \E i \in 1..Len(current) : LowerStr(current[i]) = LowerStr(topic)

\* C19 (as claimed): POST /topics with a topic that equals a saved topic of the
\* user ignoring case changes nothing and returns the list as it is; with any
\* other topic it appends the topic at the end of the list.
C19_TopicCaseInsensitive ==
    [][\A u \in UserIds, t \in Topics :
        SaveTopic(u, t, "written") =>
            IF EqualIgnoringCase(SavedTopics(db, u), t)
            THEN db' = db /\ reply'.topics = SavedTopics(db, u)
            ELSE /\ SavedTopics(db', u) = Append(SavedTopics(db, u), t)
                 /\ reply'.topics = Append(SavedTopics(db, u), t)]_vars

\* C19 (amended): the topic is first trimmed of surrounding whitespace; when
\* the trimmed topic equals a saved topic ignoring case nothing changes and the
\* list is returned as it is, otherwise the trimmed topic is appended at the
\* end of the list.
C19_TrimmedTopicCaseInsensitive ==
    [][\A u \in UserIds, t \in Topics :
        SaveTopic(u, t, "written") =>
            IF EqualIgnoringCase(SavedTopics(db, u), Strip(t))
            THEN db' = db /\ reply'.topics = SavedTopics(db, u)
            ELSE /\ SavedTopics(db', u) = Append(SavedTopics(db, u), Strip(t))
                 /\ reply'.topics = Append(SavedTopics(db, u), Strip(t))
                 /\ \A e \in DOMAIN db.users :
                        db.users[e].id # u => db'.users[e] = db.users[e]]_vars

C19_Witness ==
    /\ reply.op = "save_topic" /\ reply.detail = "Topic already saved"
    /\ reply.topics = << <<"A">>, <<"b">> >>
    /\ SavedTopics(db, reply.uid) = reply.topics

\* C20 (as claimed): whatever the interleaving of requests for one key, the
\* timestamp of the key's entry never decreases.
C20_TimestampMonotonic ==
    [][\A key \in DOMAIN cache :
        key \in DOMAIN cache' /\ cache'[key].timestamp >= cache[key].timestamp]_vars

\* This step is the fan-out of slot p's fetch_news call returning (every
\* request of this specification makes one call).
FanoutReturns(p) == procs[p].pc = "await" /\ procs'[p].pc = "done"

Stamp(e) == [urls |-> [i \in 1..Len(e.articles) |-> e.articles[i].url],
             timestamp |-> e.timestamp]

\* C20 (amended): the entry is replaced last-write-wins.  A fan-out that
\* returns a non-empty list makes it the key's entry, stamped with the time at
\* which its request started, whatever entry is there; nothing else changes
\* the urls or the timestamp of an entry; and no timestamp lies in the future.
C20_LastWriteWins ==
    [][/\ \A p \in Procs :
            (FanoutReturns(p) /\ procs'[p].all_articles # <<>>)
                => /\ KeyOf(procs[p]) \in DOMAIN cache'
                   /\ Stamp(cache'[KeyOf(procs[p])]) =
                        Stamp([articles |-> procs'[p].all_articles,
                               timestamp |-> procs[p].now])
       /\ \A key \in DOMAIN cache' :
            /\ cache'[key].timestamp <= clock'
            /\ (key \notin DOMAIN cache \/ Stamp(cache'[key]) # Stamp(cache[key]))
                    => \E p \in Procs :
                        /\ FanoutReturns(p) /\ KeyOf(procs[p]) = key
                        /\ procs'[p].all_articles # <<>>
       /\ DOMAIN cache \subseteq DOMAIN cache']_vars

C20_Witness ==
    /\ procs[1].pc = "done" /\ procs[1].fanout = 1 /\ procs[1].all_articles # <<>>
    /\ procs[2].pc = "done" /\ procs[2].fanout = 1 /\ procs[2].all_articles # <<>>
    /\ procs[1].now < procs[2].now
    /\ procs[1].all_articles # procs[2].all_articles
    /\ cache[KeyOf(procs[1])] =
            [articles |-> procs[1].all_articles, timestamp |-> procs[1].now]

\* C21 (as claimed): in every /news response, has_more implies that the
\* results are not empty, whatever the state of the key's entry.
C21_MoreImpliesResults ==
    \A p \in Procs :
        (procs[p].pc = "done" /\ procs[p].kind = "search" /\ procs[p].has_more)
            => procs[p].results # <<>>

\* C21 (amended): has_more implies non-empty results in every response whose
\* page was served, that is, taken from a fresh entry or from a fan-out that
\* returned a non-empty list.
C21_MoreImpliesResultsWhenServed ==
    [][\A p \in Procs :
        /\ (/\ StartsSearch(p)
            /\ procs'[p].pc = "done"
            /\ EntryFresh(cache, KeyOf(procs'[p]), clock)
            /\ procs'[p].has_more)
                => procs'[p].results # <<>>
        /\ (/\ EndsFanout(p)
            /\ procs'[p].all_articles # <<>>
            /\ procs'[p].has_more)
                => procs'[p].results # <<>>]_vars

C21_Witness ==
    /\ procs[1].pc = "done" /\ procs[1].kind = "search" /\ procs[1].fanout = 0
    /\ procs[1].page = 1 /\ procs[1].has_more
    /\ Len(procs[1].results) = 5
    /\ EntryFresh(cache, KeyOf(procs[1]), procs[1].now)
    /\ Len(cache[KeyOf(procs[1])].articles) = 12

\* C22: every cache entry holds at least one article, so a page-1 /news request
\* made while the key's entry is fresh is served from the cache: it returns at
\* once a non-empty list and issues no upstream request.
C22_EntriesNonEmpty ==
    [][/\ \A key \in DOMAIN cache' : Len(cache'[key].articles) >= 1
       /\ \A p \in Procs :
            (/\ StartsSearch(p)
             /\ procs'[p].page = 1
             /\ EntryFresh(cache, KeyOf(procs'[p]), clock))
                => /\ procs'[p].pc = "done"
                   /\ procs'[p].fanout = 0
                   /\ procs'[p].calls = 0
                   /\ procs'[p].results # <<>>
                   /\ cache' = cache]_vars

C22_Witness ==
    \E p \in Procs :
        /\ procs[p].pc = "done" /\ procs[p].kind = "search" /\ procs[p].page = 1
        /\ procs[p].fanout = 0 /\ procs[p].calls = 0
        /\ procs[p].now > 0
        /\ EntryFresh(cache, KeyOf(procs[p]), procs[p].now)
        /\ Len(cache[KeyOf(procs[p])].articles) = 1
        /\ procs[p].results = cache[KeyOf(procs[p])].articles
        /\ \E k \in DOMAIN cache : EntryStale(cache, k, clock)
====
